---------------------------- MODULE Spec2Model ----------------------------
(***************************************************************************)
(* A model of the ATM system of src/code.cpp: Account (balance, history,   *)
(* per-account mutex), User (PIN), BankService (the two directory maps and *)
(* the service contract) and ATM (session and menu loop).                  *)
(*                                                                         *)
(* Threads of control run the methods statement by statement: pc[t] is the *)
(* source statement thread t is about to execute.  The thread MainThread   *)
(* is main(): it owns the ATM and the console input; every other thread is *)
(* a service thread calling the BankService contract directly.  cout and   *)
(* ret are the outputs of the last step: the line it printed and the call  *)
(* that returned in it; a method's parameters and locals exist while it    *)
(* runs.                                                                   *)
(*                                                                         *)
(* Amounts are doubles in the source.  The model draws them from integers  *)
(* of small magnitude, on which double addition, subtraction and           *)
(* comparison are exact, so they are modelled by integer arithmetic.       *)
(***************************************************************************)
EXTENDS Integers, Sequences, FiniteSets, TLC

VARIABLES
    users,          \* BankService::users     : account number -> User
    accounts,       \* BankService::accounts  : account number -> Account
    pin,            \* User::pin, per User
    userAccounts,   \* User::accounts, per User
    balance,        \* Account::balance, per Account
    transactions,   \* Account::transactions, per Account
    mtx,            \* Account::mtx: the thread holding it, or NoThread
    currentUser,    \* ATM::currentUser
    currentAccount, \* ATM::currentAccount
    choice,         \* showMenu's local `choice`
    amount,         \* showMenu's local `amount`
    cinFail,        \* std::cin's failbit
    cout,           \* what the last step wrote to std::cout ("" if nothing)
    ret,            \* the call that returned in the last step, with its value
    pc,             \* per thread: the statement it is about to execute
    accNum,         \* per thread: parameter `accNum` of the running BankService method
    acc,            \* per thread: `Account* acc` of the running BankService method
    amt,            \* per thread: parameter `amount` of the running method
    reg             \* per thread: the value of `balance` loaded by `balance op= amount`

vars == <<users, accounts, pin, userAccounts, balance, transactions, mtx,
          currentUser, currentAccount, choice, amount, cinFail, cout, ret,
          pc, accNum, acc, amt, reg>>

-----------------------------------------------------------------------------
(* Bounds of the model. *)

\* No more than MaxTx deposits and withdrawals are started in one run.
MaxTx == 3

\* The number of service threads calling the contract concurrently.
NumServiceThreads == 2

\* The number of threads of the concurrent-deposit scenario.
NumDepositors == 3

\* The number of threads contending for the accounts' locks.
NumContenders == 3

\* The longest account list a User is given during setup.
MaxUserAccounts == 2

-----------------------------------------------------------------------------
(* The objects main() builds. *)

Null == "nullptr"
\* Threads are numbered: main() is thread 0, service threads are 1, 2, ...
NoThread == -1
MainThread == 0

Users == {"Alice", "Bob"}
Accounts == {"acc1", "acc2"}

accountNumber == [a \in Accounts |-> IF a = "acc1" THEN "ACC1001" ELSE "ACC2001"]

\* A PIN is a string: a sequence of characters.
PinAlice == <<"1", "2", "3", "4">>
PinBob == <<"4", "3", "2", "1">>

MainPins == [u \in Users |-> IF u = "Alice" THEN PinAlice ELSE PinBob]
MainUserAccounts == [u \in Users |-> IF u = "Alice" THEN <<"acc1">> ELSE <<"acc2">>]
MainBalance == [a \in Accounts |-> IF a = "acc1" THEN 1000 ELSE 500]

Deposit == "Deposit"
Withdraw == "Withdraw"
\* Transaction's type and amount; its timestamp is the wall clock's and is left out.
Transaction(type, a) == [type |-> type, amount |-> a]

-----------------------------------------------------------------------------
(* ret: the call that returned in the last step.  NoRet: none did. *)

NoRet == [thread |-> NoThread, method |-> "", args |-> <<>>, type |-> "none", val |-> 0]

Returned(t, method, args, type, val) ==
    [thread |-> t, method |-> method, args |-> args, type |-> type, val |-> val]

-----------------------------------------------------------------------------
(* User *)

\* std::string operator==: equal sizes and equal characters.
\* Mutant: the stored string need only be a prefix of the candidate.
StringEq_prefix(s1, s2) ==
    \A i \in 1..Len(s1) : i <= Len(s2) /\ s1[i] = s2[i]

StringEq(s1, s2) ==
    /\ Len(s1) = Len(s2)
    /\ \A i \in 1..Len(s1) : s1[i] = s2[i]

authenticate(user, inputPin) == StringEq(pin[user], inputPin)

-----------------------------------------------------------------------------
(* BankService: the directory *)

EmptyMap == [n \in {} |-> Null]

MapPut(m, k, v) == [x \in (DOMAIN m) \cup {k} |-> IF x = k THEN v ELSE m[x]]

\* BankService::addUser: the loop over user->getAccounts(), from index i on.
\* The result is the pair of maps <<users, accounts>>.
RECURSIVE addUserFrom(_, _, _, _, _)
addUserFrom(us, as, user, list, i) ==
    IF i > Len(list) THEN <<us, as>>
    ELSE addUserFrom(MapPut(us, accountNumber[list[i]], user),
                     MapPut(as, accountNumber[list[i]], list[i]),
                     user, list, i + 1)

\* Mutant: only the users map is filled.
addUser_usersOnly(us, as, user, list) == <<addUserFrom(us, as, user, list, 1)[1], as>>

addUser(us, as, user, list) == addUserFrom(us, as, user, list, 1)

getUserByAccount(n) == IF n \in DOMAIN users THEN users[n] ELSE Null

getAccount(n) == IF n \in DOMAIN accounts THEN accounts[n] ELSE Null

-----------------------------------------------------------------------------
(* The state main() has built when it constructs the ATM (lines 311-325). *)

MainDirectory ==
    LET d1 == addUser(EmptyMap, EmptyMap, "Alice", MainUserAccounts["Alice"])
    IN  addUser(d1[1], d1[2], "Bob", MainUserAccounts["Bob"])

\* All of the state main() builds but the PINs.
InitState ==
    /\ userAccounts = MainUserAccounts
    /\ users = MainDirectory[1]
    /\ accounts = MainDirectory[2]
    /\ balance = MainBalance
    /\ transactions = [a \in Accounts |-> <<>>]
    /\ mtx = [a \in Accounts |-> NoThread]
    /\ currentUser = Null
    /\ currentAccount = Null
    /\ choice = 0
    /\ amount = 0
    /\ cinFail = FALSE
    /\ cout = ""
    /\ ret = NoRet

\* lines 311-325
InitObjects ==
    /\ pin = MainPins
    /\ InitState

\* The threads T, none of them inside a method.
InitThreads(T) ==
    /\ pc = [t \in T |-> "idle"]
    /\ accNum = [t \in T |-> ""]
    /\ acc = [t \in T |-> Null]
    /\ amt = [t \in T |-> 0]
    /\ reg = [t \in T |-> 0]

Threads == DOMAIN pc

-----------------------------------------------------------------------------
(* Helpers of the actions *)

Set(f, t, v) == [f EXCEPT ![t] = v]

RECURSIVE SumLen(_)
SumLen(S) ==
    IF S = {} THEN 0
    ELSE LET a == CHOOSE x \in S : TRUE
         IN  Len(transactions[a]) + SumLen(S \ {a})

\* The statements of deposit and withdraw that precede the push_back.
PrePush == {"deposit_lock", "deposit_load", "deposit_store", "deposit_push",
            "withdraw_lock", "withdraw_check", "withdraw_load",
            "withdraw_store", "withdraw_push"}

\* Deposits and withdrawals logged or under way.
TxStarted == SumLen(Accounts) + Cardinality({t \in Threads : pc[t] \in PrePush})

dirVars == <<users, accounts, pin, userAccounts>>
sessionVars == <<currentUser, currentAccount>>
menuVars == <<choice, amount, cinFail>>

\* Mutant: a lock that excludes nobody.
MutexFree_always(a) == TRUE

\* lock_guard<mutex> lock(mtx): the constructor returns once the mutex is free.
MutexFree(a) == mtx[a] = NoThread

\* Mutant: a scope left without releasing the lock.
Unlock_leak(a) == mtx' = mtx

\* ~lock_guard at the end of the method's scope.
Unlock(a) == mtx' = [mtx EXCEPT ![a] = NoThread]

\* showMenu's loop test, line 305, on the values the step leaves.
LoopAgain == choice' # 5 /\ currentUser' # Null

\* BankService method `method` of thread t returns a value of C++ type `type`:
\* its frame is popped; a service thread receives the value; in showMenu the
\* value is used or dropped by the case, whose `break` leads to the loop test.
\* The action using Return states choice' and currentUser' before it.
Return(t, method, type, val) ==
    /\ accNum' = Set(accNum, t, "")
    /\ acc' = Set(acc, t, Null)
    /\ amt' = Set(amt, t, 0)
    /\ reg' = Set(reg, t, 0)
    /\ IF t = MainThread
       THEN /\ pc' = Set(pc, t, IF LoopAgain THEN "menu" ELSE "idle")
            /\ ret' = NoRet
       ELSE /\ pc' = Set(pc, t, "idle")
            /\ ret' = Returned(t, method, <<accNum[t], amt[t]>>, type, val)

\* BankService method: `Account* acc = getAccount(accNum)` found the account
\* and the Account method is called; `first` is its first statement.
Enter(t, n, a, first) ==
    /\ accNum' = Set(accNum, t, n)
    /\ acc' = Set(acc, t, getAccount(n))
    /\ amt' = Set(amt, t, a)
    /\ pc' = Set(pc, t, first)
    /\ ret' = NoRet
    /\ UNCHANGED reg

\* BankService method: `if (!acc) return ...`, the account was not found.
NotFound(t, method, n, a, type, val) ==
    /\ UNCHANGED <<accNum, acc, amt, reg>>
    /\ IF t = MainThread
       THEN /\ pc' = Set(pc, t, IF LoopAgain THEN "menu" ELSE "idle")
            /\ ret' = NoRet
       ELSE /\ pc' = Set(pc, t, "idle")
            /\ ret' = Returned(t, method, <<n, a>>, type, val)

-----------------------------------------------------------------------------
(* BankService: the entry of each contract method, up to the call of the   *)
(* Account method (lines 199-221).  Thread t calls with account number n.  *)
(* The action using one of these states menuVars' before it.               *)

BankService_deposit(t, n, a) ==
    /\ UNCHANGED <<dirVars, sessionVars, balance, transactions, mtx>>
    /\ cout' = ""
    /\ IF getAccount(n) = Null
       THEN NotFound(t, "deposit", n, a, "bool", FALSE)
       ELSE TxStarted < MaxTx /\ Enter(t, n, a, "deposit_lock")

BankService_withdraw(t, n, a) ==
    /\ UNCHANGED <<dirVars, sessionVars, balance, transactions, mtx>>
    /\ cout' = ""
    /\ IF getAccount(n) = Null
       THEN NotFound(t, "withdraw", n, a, "bool", FALSE)
       ELSE TxStarted < MaxTx /\ Enter(t, n, a, "withdraw_lock")

\* Mutant: 0 instead of the sentinel for an unknown account number.
BankService_getBalance_zero(t, n) ==
    /\ UNCHANGED <<dirVars, sessionVars, balance, transactions, mtx>>
    /\ cout' = ""
    /\ IF getAccount(n) = Null
       THEN NotFound(t, "getBalance", n, 0, "double", 0)
       ELSE Enter(t, n, 0, "getBalance_lock")

BankService_getBalance(t, n) ==
    /\ UNCHANGED <<dirVars, sessionVars, balance, transactions, mtx>>
    /\ cout' = ""
    /\ IF getAccount(n) = Null
       THEN NotFound(t, "getBalance", n, 0, "double", -1)
       ELSE Enter(t, n, 0, "getBalance_lock")

BankService_showTransactions(t, n) ==
    /\ UNCHANGED <<dirVars, sessionVars, balance, transactions, mtx>>
    /\ cout' = ""
    /\ IF getAccount(n) = Null
       THEN NotFound(t, "showTransactions", n, 0, "void", 0)
       ELSE Enter(t, n, 0, "show_lock")

BankService_getUserByAccount(t, n) ==
    /\ UNCHANGED <<dirVars, sessionVars, balance, transactions, mtx>>
    /\ cout' = ""
    /\ ret' = Returned(t, "getUserByAccount", <<n, 0>>, "User*", getUserByAccount(n))
    /\ UNCHANGED <<pc, accNum, acc, amt, reg>>

BankService_getAccount(t, n) ==
    /\ UNCHANGED <<dirVars, sessionVars, balance, transactions, mtx>>
    /\ cout' = ""
    /\ ret' = Returned(t, "getAccount", <<n, 0>>, "Account*", getAccount(n))
    /\ UNCHANGED <<pc, accNum, acc, amt, reg>>

-----------------------------------------------------------------------------
(* Account: one action per statement of each method (lines 118-153).       *)
(* acc[t] is the Account the running method was called on.                 *)

frame == <<dirVars, sessionVars, menuVars>>
locals == <<accNum, acc, amt>>

\* line 119, 127, 139, 144: lock_guard<mutex> lock(mtx)
Account_lock(t, at, next) ==
    /\ pc[t] = at
    /\ MutexFree(acc[t])
    /\ mtx' = [mtx EXCEPT ![acc[t]] = t]
    /\ pc' = Set(pc, t, next)
    /\ cout' = ""
    /\ ret' = NoRet
    /\ UNCHANGED <<frame, locals, balance, transactions, reg>>

\* line 120: balance += amount, the load of balance
Account_deposit_load(t) ==
    /\ pc[t] = "deposit_load"
    /\ reg' = Set(reg, t, balance[acc[t]])
    /\ pc' = Set(pc, t, "deposit_store")
    /\ cout' = ""
    /\ ret' = NoRet
    /\ UNCHANGED <<frame, locals, balance, transactions, mtx>>

\* Mutant: the sum is not stored.
Account_deposit_store_lost(t) ==
    /\ pc[t] = "deposit_store"
    /\ balance' = balance
    /\ pc' = Set(pc, t, "deposit_push")
    /\ cout' = ""
    /\ ret' = NoRet
    /\ UNCHANGED <<frame, locals, transactions, mtx, reg>>

\* line 120: balance += amount, the store of the sum
Account_deposit_store(t) ==
    /\ pc[t] = "deposit_store"
    /\ balance' = [balance EXCEPT ![acc[t]] = reg[t] + amt[t]]
    /\ pc' = Set(pc, t, "deposit_push")
    /\ cout' = ""
    /\ ret' = NoRet
    /\ UNCHANGED <<frame, locals, transactions, mtx, reg>>

\* Mutant: the entry is put in front of the history.
Account_deposit_push_front(t) ==
    /\ pc[t] = "deposit_push"
    /\ transactions' = [transactions EXCEPT ![acc[t]] =
                            <<Transaction(Deposit, amt[t])>> \o @]
    /\ pc' = Set(pc, t, "deposit_cout")
    /\ cout' = ""
    /\ ret' = NoRet
    /\ UNCHANGED <<frame, locals, balance, mtx, reg>>

\* line 121: transactions.push_back(Transaction(DEPOSIT, amount))
Account_deposit_push(t) ==
    /\ pc[t] = "deposit_push"
    /\ transactions' = [transactions EXCEPT ![acc[t]] =
                            Append(@, Transaction(Deposit, amt[t]))]
    /\ pc' = Set(pc, t, "deposit_cout")
    /\ cout' = ""
    /\ ret' = NoRet
    /\ UNCHANGED <<frame, locals, balance, mtx, reg>>

\* lines 122-123 and 203: the message, the end of the scope, return true
Account_deposit_cout(t) ==
    /\ pc[t] = "deposit_cout"
    /\ UNCHANGED <<frame, balance, transactions>>
    /\ cout' = "Deposit successful! Balance: $"
    /\ Unlock(acc[t])
    /\ Return(t, "deposit", "bool", TRUE)

\* Mutant: the funds check left out.
Account_withdraw_check_unchecked(t) ==
    /\ pc[t] = "withdraw_check"
    /\ pc' = Set(pc, t, "withdraw_load")
    /\ cout' = ""
    /\ ret' = NoRet
    /\ UNCHANGED <<frame, locals, balance, transactions, mtx, reg>>

\* line 128: if (amount > balance)
Account_withdraw_check(t) ==
    /\ pc[t] = "withdraw_check"
    /\ pc' = Set(pc, t, IF amt[t] > balance[acc[t]]
                        THEN "withdraw_insufficient" ELSE "withdraw_load")
    /\ cout' = ""
    /\ ret' = NoRet
    /\ UNCHANGED <<frame, locals, balance, transactions, mtx, reg>>

\* lines 129-130 and 209: the message, return false
Account_withdraw_insufficient(t) ==
    /\ pc[t] = "withdraw_insufficient"
    /\ UNCHANGED <<frame, balance, transactions>>
    /\ cout' = "Insufficient funds!"
    /\ Unlock(acc[t])
    /\ Return(t, "withdraw", "bool", FALSE)

\* line 132: balance -= amount, the load of balance
Account_withdraw_load(t) ==
    /\ pc[t] = "withdraw_load"
    /\ reg' = Set(reg, t, balance[acc[t]])
    /\ pc' = Set(pc, t, "withdraw_store")
    /\ cout' = ""
    /\ ret' = NoRet
    /\ UNCHANGED <<frame, locals, balance, transactions, mtx>>

\* Mutant: the amount is added.
Account_withdraw_store_plus(t) ==
    /\ pc[t] = "withdraw_store"
    /\ balance' = [balance EXCEPT ![acc[t]] = reg[t] + amt[t]]
    /\ pc' = Set(pc, t, "withdraw_push")
    /\ cout' = ""
    /\ ret' = NoRet
    /\ UNCHANGED <<frame, locals, transactions, mtx, reg>>

\* line 132: balance -= amount, the store of the difference
Account_withdraw_store(t) ==
    /\ pc[t] = "withdraw_store"
    /\ balance' = [balance EXCEPT ![acc[t]] = reg[t] - amt[t]]
    /\ pc' = Set(pc, t, "withdraw_push")
    /\ cout' = ""
    /\ ret' = NoRet
    /\ UNCHANGED <<frame, locals, transactions, mtx, reg>>

\* Mutant: one history shared by all accounts.
Account_withdraw_push_all(t) ==
    /\ pc[t] = "withdraw_push"
    /\ transactions' = [a \in Accounts |->
                            Append(transactions[a], Transaction(Withdraw, amt[t]))]
    /\ pc' = Set(pc, t, "withdraw_cout")
    /\ cout' = ""
    /\ ret' = NoRet
    /\ UNCHANGED <<frame, locals, balance, mtx, reg>>

\* line 133: transactions.push_back(Transaction(WITHDRAW, amount))
Account_withdraw_push(t) ==
    /\ pc[t] = "withdraw_push"
    /\ transactions' = [transactions EXCEPT ![acc[t]] =
                            Append(@, Transaction(Withdraw, amt[t]))]
    /\ pc' = Set(pc, t, "withdraw_cout")
    /\ cout' = ""
    /\ ret' = NoRet
    /\ UNCHANGED <<frame, locals, balance, mtx, reg>>

\* lines 134-135 and 209: the message, return true
Account_withdraw_cout(t) ==
    /\ pc[t] = "withdraw_cout"
    /\ UNCHANGED <<frame, balance, transactions>>
    /\ cout' = "Withdrawal successful! Balance: $"
    /\ Unlock(acc[t])
    /\ Return(t, "withdraw", "bool", TRUE)

\* lines 140 and 215: return balance; showMenu's case 1 prints it (line 284)
Account_getBalance_return(t) ==
    /\ pc[t] = "getBalance_return"
    /\ UNCHANGED <<frame, balance, transactions>>
    /\ cout' = IF t = MainThread THEN "Balance: $" ELSE ""
    /\ Unlock(acc[t])
    /\ Return(t, "getBalance", "double", balance[acc[t]])

\* line 145: if (transactions.empty())
Account_show_check(t) ==
    /\ pc[t] = "show_check"
    /\ pc' = Set(pc, t, IF transactions[acc[t]] = <<>>
                        THEN "show_none" ELSE "show_print")
    /\ cout' = ""
    /\ ret' = NoRet
    /\ UNCHANGED <<frame, locals, balance, transactions, mtx, reg>>

\* Mutant: the early return leaves the lock held.
Account_show_none_locked(t) ==
    /\ pc[t] = "show_none"
    /\ UNCHANGED <<frame, balance, transactions>>
    /\ cout' = "No transactions yet."
    /\ mtx' = mtx
    /\ Return(t, "showTransactions", "void", 0)

\* lines 146-147: the message, return
Account_show_none(t) ==
    /\ pc[t] = "show_none"
    /\ UNCHANGED <<frame, balance, transactions>>
    /\ cout' = "No transactions yet."
    /\ Unlock(acc[t])
    /\ Return(t, "showTransactions", "void", 0)

\* lines 149-153: the heading and one line per Transaction
Account_show_print(t) ==
    /\ pc[t] = "show_print"
    /\ UNCHANGED <<frame, balance, transactions>>
    /\ cout' = "Transaction history for account "
    /\ Unlock(acc[t])
    /\ Return(t, "showTransactions", "void", 0)

Account_deposit_step(t) ==
    \/ Account_lock(t, "deposit_lock", "deposit_load")
    \/ Account_deposit_load(t)
    \/ Account_deposit_store(t)
    \/ Account_deposit_push(t)
    \/ Account_deposit_cout(t)

Account_withdraw_step(t) ==
    \/ Account_lock(t, "withdraw_lock", "withdraw_check")
    \/ Account_withdraw_check(t)
    \/ Account_withdraw_insufficient(t)
    \/ Account_withdraw_load(t)
    \/ Account_withdraw_store(t)
    \/ Account_withdraw_push(t)
    \/ Account_withdraw_cout(t)

Account_getBalance_step(t) ==
    \/ Account_lock(t, "getBalance_lock", "getBalance_return")
    \/ Account_getBalance_return(t)

Account_showTransactions_step(t) ==
    \/ Account_lock(t, "show_lock", "show_check")
    \/ Account_show_check(t)
    \/ Account_show_none(t)
    \/ Account_show_print(t)

Account_step(t) ==
    \/ Account_deposit_step(t)
    \/ Account_withdraw_step(t)
    \/ Account_getBalance_step(t)
    \/ Account_showTransactions_step(t)

-----------------------------------------------------------------------------
(* A service thread calls the contract (lines 176-181) directly. *)

Service_deposit(t, n, a) ==
    /\ t # MainThread /\ pc[t] = "idle"
    /\ UNCHANGED menuVars
    /\ BankService_deposit(t, n, a)

Service_withdraw(t, n, a) ==
    /\ t # MainThread /\ pc[t] = "idle"
    /\ UNCHANGED menuVars
    /\ BankService_withdraw(t, n, a)

Service_getBalance(t, n) ==
    /\ t # MainThread /\ pc[t] = "idle"
    /\ UNCHANGED menuVars
    /\ BankService_getBalance(t, n)

Service_showTransactions(t, n) ==
    /\ t # MainThread /\ pc[t] = "idle"
    /\ UNCHANGED menuVars
    /\ BankService_showTransactions(t, n)

Service_getUserByAccount(t, n) ==
    /\ t # MainThread /\ pc[t] = "idle"
    /\ UNCHANGED menuVars
    /\ BankService_getUserByAccount(t, n)

Service_getAccount(t, n) ==
    /\ t # MainThread /\ pc[t] = "idle"
    /\ UNCHANGED menuVars
    /\ BankService_getAccount(t, n)

-----------------------------------------------------------------------------
(* Spec: NumServiceThreads service threads call the contract concurrently  *)
(* on the directory main() built.                                          *)

\* Two registered account numbers and one that was never registered.
AccNums == {"ACC1001", "ACC2001", "ACC9999"}

\* Amounts: below zero, within and above the balances main() sets.
Amounts == {-1000, 500, 2000}

ServiceThreads == 1..NumServiceThreads

Init == InitObjects /\ InitThreads(ServiceThreads)

Next ==
    \/ \E t \in Threads, n \in AccNums, a \in Amounts : Service_deposit(t, n, a)
    \/ \E t \in Threads, n \in AccNums, a \in Amounts : Service_withdraw(t, n, a)
    \/ \E t \in Threads, n \in AccNums : Service_getBalance(t, n)
    \/ \E t \in Threads, n \in AccNums : Service_showTransactions(t, n)
    \/ \E t \in Threads, n \in AccNums : Service_getUserByAccount(t, n)
    \/ \E t \in Threads, n \in AccNums : Service_getAccount(t, n)
    \/ \E t \in Threads : Account_step(t)

Spec == Init /\ [][Next]_vars

-----------------------------------------------------------------------------
(* ATM (lines 237-307), run by MainThread.  Its public methods may be      *)
(* called in any order while no other ATM method is running.               *)

\* A whitespace-separated token of std::cin: a decimal numeral or another word.
Num(n) == [num |-> TRUE, val |-> n]
NonNumeric == [num |-> FALSE, val |-> 0]

\* `cin >> x` for a numeric x holding `old`: with failbit set nothing is
\* read and x keeps its value; a numeral is stored; any other word stores 0
\* and sets failbit.
Extracted(failed, tok, old) == IF failed THEN old ELSE IF tok.num THEN tok.val ELSE 0
FailAfter(failed, tok) == failed \/ ~tok.num

\* Mutant: an account already selected is kept.
ATM_login_keepsAccount(n, p) ==
    /\ pc[MainThread] = "idle"
    /\ IF getUserByAccount(n) # Null /\ authenticate(getUserByAccount(n), p)
       THEN /\ currentUser' = getUserByAccount(n)
            /\ currentAccount' = IF currentAccount = Null THEN getAccount(n)
                                 ELSE currentAccount
            /\ cout' = "Login successful!"
            /\ ret' = Returned(MainThread, "login", <<n, p>>, "bool", TRUE)
       ELSE /\ cout' = "Invalid account number or PIN."
            /\ ret' = Returned(MainThread, "login", <<n, p>>, "bool", FALSE)
            /\ UNCHANGED <<currentUser, currentAccount>>
    /\ UNCHANGED <<dirVars, menuVars, balance, transactions, mtx, pc, locals, reg>>

\* Mutant: an unknown account number is reported as such.
ATM_login_leaky(n, p) ==
    /\ pc[MainThread] = "idle"
    /\ IF getUserByAccount(n) # Null /\ authenticate(getUserByAccount(n), p)
       THEN /\ currentUser' = getUserByAccount(n)
            /\ currentAccount' = getAccount(n)
            /\ cout' = "Login successful!"
            /\ ret' = Returned(MainThread, "login", <<n, p>>, "bool", TRUE)
       ELSE /\ cout' = IF getUserByAccount(n) = Null
                       THEN "Unknown account number."
                       ELSE "Invalid account number or PIN."
            /\ ret' = Returned(MainThread, "login", <<n, p>>, "bool", FALSE)
            /\ UNCHANGED <<currentUser, currentAccount>>
    /\ UNCHANGED <<dirVars, menuVars, balance, transactions, mtx, pc, locals, reg>>

\* lines 246-256
ATM_login(n, p) ==
    /\ pc[MainThread] = "idle"
    /\ IF getUserByAccount(n) # Null /\ authenticate(getUserByAccount(n), p)
       THEN /\ currentUser' = getUserByAccount(n)
            /\ currentAccount' = getAccount(n)
            /\ cout' = "Login successful!"
            /\ ret' = Returned(MainThread, "login", <<n, p>>, "bool", TRUE)
       ELSE /\ cout' = "Invalid account number or PIN."
            /\ ret' = Returned(MainThread, "login", <<n, p>>, "bool", FALSE)
            /\ UNCHANGED <<currentUser, currentAccount>>
    /\ UNCHANGED <<dirVars, menuVars, balance, transactions, mtx, pc, locals, reg>>

\* Mutant: currentAccount is left set.
logout_partial ==
    /\ currentUser' = Null
    /\ currentAccount' = currentAccount
    /\ cout' = "Logged out successfully."

\* lines 258-262
logout ==
    /\ currentUser' = Null
    /\ currentAccount' = Null
    /\ cout' = "Logged out successfully."

\* logout() called by the ATM's user
ATM_logout ==
    /\ pc[MainThread] = "idle"
    /\ logout
    /\ ret' = Returned(MainThread, "logout", <<>>, "void", 0)
    /\ UNCHANGED <<dirVars, menuVars, balance, transactions, mtx, pc, locals, reg>>

\* lines 264-279: the guard, and the first pass to the prompt.  `choice` and
\* `amount` are declared without a value; each is written by `cin >>`
\* before it is read, so the model lets them start with what the last call
\* left.
ATM_showMenu ==
    /\ pc[MainThread] = "idle"
    /\ IF currentUser = Null
       THEN /\ cout' = "Please login first."
            /\ ret' = Returned(MainThread, "showMenu", <<>>, "void", 0)
            /\ pc' = pc
       ELSE /\ cout' = "Enter choice: "
            /\ ret' = NoRet
            /\ pc' = Set(pc, MainThread, "menu")
    /\ UNCHANGED <<dirVars, sessionVars, menuVars, balance, transactions, mtx,
                   locals, reg>>

\* line 280, `cin >> choice`, and the switch's case 1 up to the call (line 284)
ATM_menu_balance(tc) ==
    /\ pc[MainThread] = "menu"
    /\ Extracted(cinFail, tc, choice) = 1
    /\ choice' = 1
    /\ cinFail' = FailAfter(cinFail, tc)
    /\ amount' = amount
    /\ BankService_getBalance(MainThread, accountNumber[currentAccount])

\* line 280 and case 2: the prompt, `cin >> amount`, the call (lines 287-289)
ATM_menu_deposit(tc, ta) ==
    /\ pc[MainThread] = "menu"
    /\ Extracted(cinFail, tc, choice) = 2
    /\ choice' = 2
    /\ amount' = Extracted(FailAfter(cinFail, tc), ta, amount)
    /\ cinFail' = FailAfter(FailAfter(cinFail, tc), ta)
    /\ BankService_deposit(MainThread, accountNumber[currentAccount], amount')

\* line 280 and case 3: the prompt, `cin >> amount`, the call (lines 292-294)
ATM_menu_withdraw(tc, ta) ==
    /\ pc[MainThread] = "menu"
    /\ Extracted(cinFail, tc, choice) = 3
    /\ choice' = 3
    /\ amount' = Extracted(FailAfter(cinFail, tc), ta, amount)
    /\ cinFail' = FailAfter(FailAfter(cinFail, tc), ta)
    /\ BankService_withdraw(MainThread, accountNumber[currentAccount], amount')

\* line 280 and case 4 up to the call (line 297)
ATM_menu_show(tc) ==
    /\ pc[MainThread] = "menu"
    /\ Extracted(cinFail, tc, choice) = 4
    /\ choice' = 4
    /\ cinFail' = FailAfter(cinFail, tc)
    /\ amount' = amount
    /\ BankService_showTransactions(MainThread, accountNumber[currentAccount])

\* line 280 and case 5: logout(); the loop test then ends showMenu
ATM_menu_logout(tc) ==
    /\ pc[MainThread] = "menu"
    /\ Extracted(cinFail, tc, choice) = 5
    /\ choice' = 5
    /\ cinFail' = FailAfter(cinFail, tc)
    /\ logout
    /\ pc' = Set(pc, MainThread, IF LoopAgain THEN "menu" ELSE "idle")
    /\ ret' = IF LoopAgain THEN NoRet ELSE Returned(MainThread, "showMenu", <<>>, "void", 0)
    /\ UNCHANGED <<dirVars, amount, balance, transactions, mtx, locals, reg>>

\* line 280 and the default case (line 303), then the loop test
ATM_menu_default(tc) ==
    /\ pc[MainThread] = "menu"
    /\ Extracted(cinFail, tc, choice) \notin 1..5
    /\ choice' = Extracted(cinFail, tc, choice)
    /\ cinFail' = FailAfter(cinFail, tc)
    /\ UNCHANGED <<dirVars, sessionVars, amount, balance, transactions, mtx,
                   locals, reg>>
    /\ cout' = "Invalid choice."
    /\ ret' = NoRet
    /\ pc' = Set(pc, MainThread, IF LoopAgain THEN "menu" ELSE "idle")

-----------------------------------------------------------------------------
(* SpecATM: the program of main(), one thread: the ATM on the directory    *)
(* main() built, its methods called in any order, any input typed.         *)

\* PINs typed at login: the two stored ones and one that is neither.
PinInputs == {PinAlice, PinBob, <<"0", "0", "0", "0">>}

\* Amounts typed at the prompts, those of the end-to-end scenario among them.
MenuAmounts == {-1000, 500, 1500, 2000}

ChoiceTokens == {Num(n) : n \in 0..6} \cup {NonNumeric}
AmountTokens == {Num(a) : a \in MenuAmounts} \cup {NonNumeric}

InitATM == InitObjects /\ InitThreads({MainThread})

NextATM ==
    \/ \E n \in AccNums, p \in PinInputs : ATM_login(n, p)
    \/ ATM_logout
    \/ ATM_showMenu
    \/ \E tc \in ChoiceTokens : ATM_menu_balance(tc)
    \/ \E tc \in ChoiceTokens, ta \in AmountTokens : ATM_menu_deposit(tc, ta)
    \/ \E tc \in ChoiceTokens, ta \in AmountTokens : ATM_menu_withdraw(tc, ta)
    \/ \E tc \in ChoiceTokens : ATM_menu_show(tc)
    \/ \E tc \in ChoiceTokens : ATM_menu_logout(tc)
    \/ \E tc \in ChoiceTokens : ATM_menu_default(tc)
    \/ Account_step(MainThread)

SpecATM == InitATM /\ [][NextATM]_vars

-----------------------------------------------------------------------------
(* SpecDeposits: NumDepositors threads have each called                    *)
(* BankService::deposit with the same registered account number and the    *)
(* same amount, have found the account (lines 200-202), and now run        *)
(* Account::deposit concurrently.                                          *)

Depositors == 1..NumDepositors

InitDeposits ==
    /\ InitObjects
    /\ \E a \in Accounts, A \in Amounts :
          /\ pc = [t \in Depositors |-> "deposit_lock"]
          /\ accNum = [t \in Depositors |-> accountNumber[a]]
          /\ acc = [t \in Depositors |-> a]
          /\ amt = [t \in Depositors |-> A]
          /\ reg = [t \in Depositors |-> 0]

NextDeposits == \E t \in Threads : Account_deposit_step(t)

SpecDeposits == InitDeposits /\ [][NextDeposits]_vars

-----------------------------------------------------------------------------
(* The claims *)

\* Thread t runs withdraw, holds the lock, and the amount exceeds the balance.
Rejecting(t) ==
    \/ pc[t] = "withdraw_insufficient"
    \/ pc[t] = "withdraw_check" /\ amt[t] > balance[acc[t]]

\* C1: a withdraw of more than the balance, on a registered account, leaves
\* the account's balance and history as they are in every step from the funds
\* check to the return, and returns false.
C1_WithdrawRejected ==
    [][\A t \in Threads :
          Rejecting(t) =>
              /\ balance'[acc[t]] = balance[acc[t]]
              /\ transactions'[acc[t]] = transactions[acc[t]]
              /\ \/ Rejecting(t)' /\ acc'[t] = acc[t] /\ amt'[t] = amt[t]
                 \/ ret' = Returned(t, "withdraw", <<accNum[t], amt[t]>>, "bool", FALSE)]_vars

\* C1 witness: withdraw has returned false on a registered account.
C1_Witness ==
    /\ ret.method = "withdraw"
    /\ ret.val = FALSE
    /\ ret.args[1] \in DOMAIN accounts
    /\ ret.args[2] > balance[accounts[ret.args[1]]]

\* C2: the balance of every Account is at least 0 in every reachable state.
C2_BalanceNonNegative == \A a \in Accounts : balance[a] >= 0
\* C3: when each of NumDepositors threads has run deposit(A) once on the
\* same account and all have returned, the balance is the initial balance
\* plus NumDepositors * A and the history is NumDepositors Deposit entries
\* of A.
C3_ConcurrentDeposits ==
    (\A t \in Threads : pc[t] = "idle") =>
        /\ ret.method = "deposit"
        /\ ret.val = TRUE
        /\ LET a == accounts[ret.args[1]]
               A == ret.args[2]
           IN  /\ balance[a] = MainBalance[a] + NumDepositors * A
               /\ Len(transactions[a]) = NumDepositors
               /\ \A i \in 1..Len(transactions[a]) :
                     transactions[a][i] = Transaction(Deposit, A)
               /\ \A b \in Accounts \ {a} :
                     balance[b] = MainBalance[b] /\ transactions[b] = <<>>

\* C3 witness: all the depositing threads have returned.
C3_Witness ==
    /\ \A t \in Threads : pc[t] = "idle"
    /\ \E a \in Accounts : Len(transactions[a]) = NumDepositors
    /\ Cardinality(Threads) >= 3
\* The statements at which a thread waits for an account's lock, and those
\* it executes inside an Account method after taking the lock.
LockPcs == {"deposit_lock", "withdraw_lock", "getBalance_lock", "show_lock"}
Critical == {"deposit_load", "deposit_store", "deposit_push", "deposit_cout",
             "withdraw_check", "withdraw_insufficient", "withdraw_load",
             "withdraw_store", "withdraw_push", "withdraw_cout",
             "getBalance_return", "show_check", "show_none", "show_print"}

\* C4: a thread inside deposit, withdraw, getBalance or showTransactions
\* holds the lock of the account from the first statement after the
\* lock_guard to the return; at most one thread is inside the methods of one
\* account; a lock is held only by a thread inside a method of that account,
\* so it is free once the method has returned, whatever the exit.
C4_MutualExclusion ==
    /\ \A t \in Threads : pc[t] \in Critical => mtx[acc[t]] = t
    /\ \A a \in Accounts :
          /\ Cardinality({t \in Threads : pc[t] \in Critical /\ acc[t] = a}) <= 1
          /\ mtx[a] # NoThread =>
                /\ mtx[a] \in Threads
                /\ pc[mtx[a]] \in Critical
                /\ acc[mtx[a]] = a

\* C4 witness: one thread is inside a method of an account while another
\* waits for the lock of the same account.
C4_Witness ==
    \E t1 \in Threads, t2 \in Threads :
        /\ pc[t1] \in Critical
        /\ pc[t2] \in LockPcs
        /\ acc[t1] = acc[t2]

\* The balance the first k entries of history h make of the balance b.
RECURSIVE Net(_, _, _)
Net(b, h, k) ==
    IF k = 0 THEN b
    ELSE Net(b, h, k - 1)
         + (IF h[k].type = Deposit THEN h[k].amount ELSE 0 - h[k].amount)

\* C5: a withdraw(A) that follows a deposit(A) on the same account, no other
\* deposit or withdrawal being logged in between, returns true, the history
\* then ends with Deposit A, Withdraw A, and the balance is what it was
\* before the deposit.
C5_DepositThenWithdraw ==
    (ret.method = "withdraw" /\ ret.args[1] \in DOMAIN accounts) =>
        LET a == accounts[ret.args[1]]
            A == ret.args[2]
            h == transactions[a]
        IN  /\ (h # <<>> /\ h[Len(h)] = Transaction(Deposit, A)) => ret.val = TRUE
            /\ (ret.val = TRUE /\ Len(h) >= 2 /\ h[Len(h) - 1] = Transaction(Deposit, A)) =>
                  /\ h[Len(h)] = Transaction(Withdraw, A)
                  /\ balance[a] = Net(MainBalance[a], h, Len(h) - 2)

\* The account number was never registered.
Unregistered(n) == n \notin (DOMAIN accounts) \cup (DOMAIN users)

\* C6: a contract call with an account number that was never registered
\* returns at once with its not-found value (false, false, -1, null, null,
\* nothing), prints nothing, and changes neither an account (balance,
\* history, lock) nor the directory.
C6_NotFound ==
    [][(ret'.thread # NoThread /\ Unregistered(ret'.args[1])) =>
          /\ pc[ret'.thread] = "idle" /\ pc' = pc
          /\ CASE ret'.method = "deposit" -> ret'.type = "bool" /\ ret'.val = FALSE
               [] ret'.method = "withdraw" -> ret'.type = "bool" /\ ret'.val = FALSE
               [] ret'.method = "getBalance" -> ret'.type = "double" /\ ret'.val = -1
               [] ret'.method = "showTransactions" -> ret'.type = "void"
               [] ret'.method = "getUserByAccount" -> ret'.type = "User*" /\ ret'.val = Null
               [] ret'.method = "getAccount" -> ret'.type = "Account*" /\ ret'.val = Null
               [] OTHER -> FALSE
          /\ cout' = ""
          /\ UNCHANGED <<users, accounts, pin, userAccounts, balance, transactions, mtx,
                         currentUser, currentAccount>>]_vars

\* C6 witness: getBalance has returned the sentinel for an unregistered number.
C6_Witness ==
    /\ ret.method = "getBalance"
    /\ Unregistered(ret.args[1])
    /\ ret.val = -1

\* C7: after a login that returned false the session is unauthenticated,
\* currentUser and currentAccount are unset (so that showMenu refuses),
\* whatever the session was when login was called.
C7_FailedLoginUnauthenticated ==
    (ret.method = "login" /\ ret.val = FALSE) =>
        /\ currentUser = Null
        /\ currentAccount = Null

\* C8: the session goes from logged out to logged in only by a successful
\* login and from logged in to logged out only by logout; in the menu a
\* choice of 1-4 leaves currentUser and currentAccount unchanged, any other
\* choice but 5 leaves them and every balance and history unchanged and
\* the menu goes on, and choice 5 clears both and ends showMenu; the steps
\* of the account operation a choice started leave the session unchanged.
C8_SessionTransitions ==
    [][/\ (currentUser = Null /\ currentUser' # Null) =>
              /\ ret'.method = "login" /\ ret'.val = TRUE
              /\ currentAccount' # Null
       /\ (currentUser # Null /\ currentUser' = Null) =>
              /\ currentAccount' = Null
              /\ \/ ret'.method = "logout"
                 \/ pc[MainThread] = "menu" /\ choice' = 5
       /\ (currentAccount' = Null) <=> (currentUser' = Null)
       /\ pc[MainThread] = "menu" =>
              /\ choice' \in 1..4 => UNCHANGED sessionVars
              /\ choice' \notin 1..5 =>
                    /\ UNCHANGED <<sessionVars, balance, transactions>>
                    /\ pc'[MainThread] = "menu"
              /\ choice' = 5 =>
                    /\ currentUser' = Null
                    /\ currentAccount' = Null
                    /\ pc'[MainThread] = "idle"
                    /\ ret'.method = "showMenu"
       /\ pc[MainThread] \notin {"idle", "menu"} => UNCHANGED sessionVars]_vars

\* C8 witness: choice 5 has logged the user out and ended showMenu.
C8_Witness ==
    /\ ret.method = "showMenu"
    /\ cout = "Logged out successfully."
    /\ choice = 5
    /\ currentUser = Null
    /\ currentAccount = Null
    /\ pc[MainThread] = "idle"

\* C9: a login that fails returns false, prints the one message "Invalid
\* account number or PIN." and changes nothing else, whether the account
\* number is unknown or the PIN is wrong: the outcome does not depend on
\* the cause.
C9_FailedLoginUniform ==
    [][(ret'.method = "login" /\ ret'.val = FALSE) =>
          /\ \/ Unregistered(ret'.args[1])
             \/ ret'.args[1] \in DOMAIN users
                   /\ ret'.args[2] # pin[users[ret'.args[1]]]
          /\ ret' = Returned(MainThread, "login", ret'.args, "bool", FALSE)
          /\ cout' = "Invalid account number or PIN."
          /\ UNCHANGED <<dirVars, sessionVars, menuVars, balance, transactions, mtx,
                         pc, locals, reg>>]_vars

\* C9 witness: a login with a registered number and a wrong PIN has failed
\* while a user was logged in.
C9_Witness ==
    /\ ret.method = "login"
    /\ ret.val = FALSE
    /\ ret.args[1] \in DOMAIN users
    /\ ret.args[2] # pin[users[ret.args[1]]]
    /\ cout = "Invalid account number or PIN."

-----------------------------------------------------------------------------
(* SpecAuth: User::authenticate on users with any stored PIN.              *)

\* Stored and candidate PINs: strings that differ in case, in added
\* whitespace, in length, and in every character.
PinStrings ==
    { <<"1", "2", "3", "4">>, <<"1", "2", "3", "4", " ">>, <<" ", "1", "2", "3", "4">>,
      <<"1", "2", "3">>, <<"a", "b", "c", "d">>, <<"A", "b", "c", "d">>,
      <<"4", "3", "2", "1">>, <<>> }

\* line 166, called on user u with candidate p
User_authenticate(u, p) ==
    /\ ret' = Returned(MainThread, "authenticate", <<u, p>>, "bool", authenticate(u, p))
    /\ cout' = ""
    /\ UNCHANGED <<dirVars, sessionVars, menuVars, balance, transactions, mtx,
                   pc, locals, reg>>

InitAuth ==
    /\ pin \in [Users -> PinStrings]
    /\ InitState
    /\ InitThreads({MainThread})

NextAuth == \E u \in Users, p \in PinStrings : User_authenticate(u, p)

SpecAuth == InitAuth /\ [][NextAuth]_vars

\* C10: authenticate(p) returns true exactly when p is the stored PIN,
\* character for character and of the same length, and changes no state.
C10_AuthenticateExact ==
    [][ret'.method = "authenticate" =>
          /\ ret'.val = (ret'.args[2] = pin[ret'.args[1]])
          /\ UNCHANGED <<dirVars, sessionVars, menuVars, balance, transactions, mtx,
                         pc, locals, reg>>]_vars

\* C10 witness: a candidate that is the stored PIN with a space added has
\* been refused.
C10_Witness ==
    /\ ret.method = "authenticate"
    /\ ret.val = FALSE
    /\ ret.args[2] = Append(pin[ret.args[1]], " ")

-----------------------------------------------------------------------------
(* SpecScenario: main() with the input of the end-to-end scenario: Alice   *)
(* logs in to ACC1001, opens the menu, deposits 500, asks for 2000 (any    *)
(* number of times), then withdraws 1500.                                  *)

\* showMenu's locals `choice` and `amount` (lines 269-270) are declared
\* without an initial value: they start with any value.
InitScenario ==
    /\ pin = MainPins
    /\ userAccounts = MainUserAccounts
    /\ users = MainDirectory[1]
    /\ accounts = MainDirectory[2]
    /\ balance = MainBalance
    /\ transactions = [a \in Accounts |-> <<>>]
    /\ mtx = [a \in Accounts |-> NoThread]
    /\ currentUser = Null
    /\ currentAccount = Null
    /\ choice \in 0..6
    /\ amount \in MenuAmounts \cup {0}
    /\ cinFail = FALSE
    /\ cout = ""
    /\ ret = NoRet
    /\ InitThreads({MainThread})

NextScenario ==
    \/ currentUser = Null /\ ATM_login("ACC1001", PinAlice)
    \/ currentUser # Null /\ ATM_showMenu
    \/ transactions["acc1"] = <<>> /\ ATM_menu_deposit(Num(2), Num(500))
    \/ transactions["acc1"] = <<Transaction(Deposit, 500)>>
          /\ ATM_menu_withdraw(Num(3), Num(2000))
    \/ transactions["acc1"] = <<Transaction(Deposit, 500)>>
          /\ ATM_menu_withdraw(Num(3), Num(1500))
    \/ Account_deposit_step(MainThread)
    \/ Account_withdraw_step(MainThread)

SpecScenario == InitScenario /\ [][NextScenario]_vars

\* C11: in the end-to-end scenario the login succeeds and opens Alice's
\* session on ACC1001 with balance 1000; once the deposit of 500 is done the
\* balance is 1500; a withdrawal of 2000 is refused with "Insufficient
\* funds!" and leaves balance 1500 and the history as it was; once the
\* withdrawal of 1500 is done the balance is 0 and the history is exactly
\* Deposit 500, Withdraw 1500; Bob's account is untouched.
C11_EndToEnd ==
    /\ ret.method = "login" =>
          /\ ret.val = TRUE
          /\ currentUser = "Alice"
          /\ currentAccount = "acc1"
          /\ balance["acc1"] = 1000
    /\ pc[MainThread] = "menu" =>
          /\ currentAccount = "acc1"
          /\ CASE Len(transactions["acc1"]) = 0 -> balance["acc1"] = 1000
               [] Len(transactions["acc1"]) = 1 ->
                     /\ transactions["acc1"] = <<Transaction(Deposit, 500)>>
                     /\ balance["acc1"] = 1500
                     /\ cout \in {"Deposit successful! Balance: $", "Insufficient funds!"}
               [] Len(transactions["acc1"]) = 2 ->
                     /\ transactions["acc1"] =
                           <<Transaction(Deposit, 500), Transaction(Withdraw, 1500)>>
                     /\ balance["acc1"] = 0
                     /\ cout = "Withdrawal successful! Balance: $"
               [] OTHER -> FALSE
    /\ (pc[MainThread] = "withdraw_insufficient" \/ cout = "Insufficient funds!") =>
          /\ balance["acc1"] = 1500
          /\ transactions["acc1"] = <<Transaction(Deposit, 500)>>
    /\ balance["acc2"] = MainBalance["acc2"]
    /\ transactions["acc2"] = <<>>

\* C11 witness: the scenario has run to its end.
C11_Witness ==
    /\ pc[MainThread] = "menu"
    /\ cout = "Withdrawal successful! Balance: $"
    /\ balance["acc1"] = 0
    /\ Len(transactions["acc1"]) = 2

\* The statements of getBalance and showTransactions under the lock.
ReaderPcs == {"getBalance_return", "show_check", "show_none", "show_print"}

\* The balance the whole history of account a makes of its opening balance.
Conserved(a) == Net(MainBalance[a], transactions[a], Len(transactions[a]))

\* C12: whenever the lock of an account is free or held by a reader
\* (getBalance, showTransactions), the balance is the opening balance plus
\* the amounts of the Deposit entries minus the amounts of the Withdraw
\* entries of its history; so is every balance getBalance returns.
C12_Conservation ==
    /\ \A a \in Accounts :
          (mtx[a] = NoThread \/ pc[mtx[a]] \in ReaderPcs) => balance[a] = Conserved(a)
    /\ (ret.method = "getBalance" /\ ret.args[1] \in DOMAIN accounts) =>
          ret.val = Conserved(accounts[ret.args[1]])

\* C12 witness: getBalance has returned the balance of an account after a
\* deposit and a withdrawal on it.
C12_Witness ==
    /\ ret.method = "getBalance"
    /\ ret.args[1] \in DOMAIN accounts
    /\ Len(transactions[accounts[ret.args[1]]]) >= 2
    /\ \E i, j \in 1..Len(transactions[accounts[ret.args[1]]]) :
          /\ transactions[accounts[ret.args[1]]][i].type = Deposit
          /\ transactions[accounts[ret.args[1]]][j].type = Withdraw
    /\ ret.val = balance[accounts[ret.args[1]]]

\* History h2 is history h1 with the entries `more` appended.
Appended(h1, h2, more) == h2 = h1 \o more

\* C13: the history of every account is append-only: a step leaves it as it
\* is or appends one entry to it; the entry is appended by the push_back of
\* a deposit or of a withdrawal that passed the funds check, on that
\* operation's account and with its type and amount; every deposit and
\* every successful withdrawal reaches its end through exactly that one
\* push_back; a rejected withdrawal, getBalance, showTransactions, login
\* and logout append nothing.
C13_AppendOnly ==
    [][/\ \A a \in Accounts :
             \/ transactions'[a] = transactions[a]
             \/ \E t \in Threads :
                   /\ acc[t] = a
                   /\ \/ /\ pc[t] = "deposit_push"
                         /\ Appended(transactions[a], transactions'[a],
                                     <<Transaction(Deposit, amt[t])>>)
                      \/ /\ pc[t] = "withdraw_push"
                         /\ Appended(transactions[a], transactions'[a],
                                     <<Transaction(Withdraw, amt[t])>>)
       /\ \A t \in Threads :
             /\ (pc[t] = "deposit_push" /\ pc'[t] # pc[t]) =>
                   /\ pc'[t] = "deposit_cout"
                   /\ Len(transactions'[acc[t]]) = Len(transactions[acc[t]]) + 1
             /\ (pc[t] = "withdraw_push" /\ pc'[t] # pc[t]) =>
                   /\ pc'[t] = "withdraw_cout"
                   /\ Len(transactions'[acc[t]]) = Len(transactions[acc[t]]) + 1
             /\ (pc'[t] = "deposit_cout" /\ pc[t] # pc'[t]) => pc[t] = "deposit_push"
             /\ (pc'[t] = "withdraw_cout" /\ pc[t] # pc'[t]) => pc[t] = "withdraw_push"
             /\ (pc'[t] = "withdraw_push" /\ pc[t] # pc'[t]) => pc[t] = "withdraw_store"
             /\ (pc'[t] = "withdraw_insufficient" /\ pc[t] # pc'[t]) =>
                   pc[t] = "withdraw_check"
             /\ (pc[t] = "withdraw_insufficient" /\ pc'[t] # pc[t]) =>
                   pc'[t] \in {"idle", "menu"}
             /\ (pc[t] \in ReaderPcs \cup LockPcs \cup {"withdraw_insufficient", "withdraw_check"}
                    /\ pc'[t] # pc[t]) =>
                   transactions' = transactions
       /\ ret'.method \in {"login", "logout", "showMenu"} => transactions' = transactions]_vars

\* C13 witness: a withdrawal has been appended after a deposit, and the
\* operation that appended it is about to return.
C13_Witness ==
    \E t \in Threads :
        /\ pc[t] = "withdraw_cout"
        /\ Len(transactions[acc[t]]) >= 2
        /\ transactions[acc[t]][Len(transactions[acc[t]])] = Transaction(Withdraw, amt[t])
        /\ transactions[acc[t]][1].type = Deposit

\* C14: every Transaction in the history of an account has a strictly
\* positive amount, whatever amounts deposit and withdraw were called with.
C14_PositiveAmounts ==
    \A a \in Accounts :
        \A i \in 1..Len(transactions[a]) : transactions[a][i].amount > 0

-----------------------------------------------------------------------------
(* SpecProgress: NumContenders threads call the four account operations of *)
(* the contract again and again, on either account, under fair scheduling. *)

Contenders == 1..NumContenders

\* The registered account numbers.
ProgressAccNums == {"ACC1001", "ACC2001"}

\* An amount the opening balances do not cover, and cover after a deposit
\* of it.
ProgressAmounts == {2000}

InitProgress == InitObjects /\ InitThreads(Contenders)

NextProgress ==
    \/ \E t \in Threads, n \in ProgressAccNums, a \in ProgressAmounts : Service_deposit(t, n, a)
    \/ \E t \in Threads, n \in ProgressAccNums, a \in ProgressAmounts : Service_withdraw(t, n, a)
    \/ \E t \in Threads, n \in ProgressAccNums : Service_getBalance(t, n)
    \/ \E t \in Threads, n \in ProgressAccNums : Service_showTransactions(t, n)
    \/ \E t \in Threads : Account_step(t)

\* Fair scheduling: a thread that can take a step of its Account method
\* again and again (its lock is free again and again) takes one.  The calls
\* themselves are under no obligation.
Fairness == \A t \in Contenders : SF_vars(Account_step(t))

SpecProgress == InitProgress /\ [][NextProgress]_vars /\ Fairness

\* Some thread inside an operation can take a step.
CanStep ==
    \E t \in Threads :
        \/ pc[t] \in Critical
        \/ pc[t] \in LockPcs /\ mtx[acc[t]] = NoThread

C16_InvalidInputRecovers ==
    (pc[MainThread] = "menu" /\ cout = "Invalid choice.") =>
        /\ currentUser # Null
        /\ \A n \in 1..5 : Extracted(cinFail, Num(n), choice) = n

-----------------------------------------------------------------------------
(* SpecSetup: the setup of the directory: accounts are added to users      *)
(* (User::addAccount) and users are registered (BankService::addUser) in   *)
(* any order and any number of times, and logins are tried on the result.  *)

\* line 168: accounts.push_back(account)
User_addAccount(u, a) ==
    /\ pc[MainThread] = "idle"
    /\ Len(userAccounts[u]) < MaxUserAccounts
    /\ userAccounts' = [userAccounts EXCEPT ![u] = Append(@, a)]
    /\ cout' = ""
    /\ ret' = Returned(MainThread, "addAccount", <<u, a>>, "void", 0)
    /\ UNCHANGED <<users, accounts, pin, sessionVars, menuVars, balance, transactions,
                   mtx, pc, locals, reg>>

\* lines 192-197
BankService_addUser(u) ==
    /\ pc[MainThread] = "idle"
    /\ users' = addUser(users, accounts, u, userAccounts[u])[1]
    /\ accounts' = addUser(users, accounts, u, userAccounts[u])[2]
    /\ cout' = ""
    /\ ret' = Returned(MainThread, "addUser", <<u>>, "void", 0)
    /\ UNCHANGED <<pin, userAccounts, sessionVars, menuVars, balance, transactions,
                   mtx, pc, locals, reg>>

\* The objects are constructed; nobody owns an account and the maps are empty.
InitSetup ==
    /\ pin = MainPins
    /\ userAccounts = [u \in Users |-> <<>>]
    /\ users = EmptyMap
    /\ accounts = EmptyMap
    /\ balance = MainBalance
    /\ transactions = [a \in Accounts |-> <<>>]
    /\ mtx = [a \in Accounts |-> NoThread]
    /\ currentUser = Null
    /\ currentAccount = Null
    /\ choice = 0
    /\ amount = 0
    /\ cinFail = FALSE
    /\ cout = ""
    /\ ret = NoRet
    /\ InitThreads({MainThread})

NextSetup ==
    \/ \E u \in Users, a \in Accounts : User_addAccount(u, a)
    \/ \E u \in Users : BankService_addUser(u)
    \/ \E n \in AccNums, p \in PinInputs : ATM_login(n, p)

SpecSetup == InitSetup /\ [][NextSetup]_vars

\* The accounts in the list of user u.
Owned(u) == {userAccounts[u][i] : i \in 1..Len(userAccounts[u])}

\* C17: the two directory maps have the same key set, so getUserByAccount
\* is non-null exactly for the numbers for which getAccount is; a number is
\* a key only if its user was registered while owning the account of that
\* number, and only such an account can be logged into.
C17_SameKeys ==
    /\ DOMAIN users = DOMAIN accounts
    /\ \A n \in AccNums : (getUserByAccount(n) # Null) <=> (getAccount(n) # Null)
    /\ \A n \in DOMAIN users :
          /\ accounts[n] \in Owned(users[n])
          /\ accountNumber[accounts[n]] = n
    /\ (ret.method = "login" /\ ret.val = TRUE) =>
          /\ ret.args[1] \in DOMAIN users
          /\ currentAccount \in Owned(currentUser)
    /\ currentUser # Null => currentAccount \in Owned(currentUser)

\* C17 witness: a user was registered, was given another account after
\* that, and a login to that account with the user's PIN has failed.
C17_Witness ==
    /\ ret.method = "login"
    /\ ret.val = FALSE
    /\ DOMAIN users # {}
    /\ \E u \in Users, a \in Accounts :
          /\ a \in Owned(u)
          /\ u \in {users[n] : n \in DOMAIN users}
          /\ ret.args = <<accountNumber[a], pin[u]>>
          /\ accountNumber[a] \notin DOMAIN accounts

\* The statements that write to std::cout inside an Account method (lines
\* 122, 129, 134, 146, 149-152), and the statement at which showMenu waits
\* for console input (line 280).
ConsoleOutputPcs == {"deposit_cout", "withdraw_insufficient", "withdraw_cout",
                     "show_none", "show_print"}
ConsoleInputPcs == {"menu"}

\* C18: a thread that is at a console output or waits for console input
\* holds no account lock.
C18_NoLockAtConsole ==
    \A t \in Threads :
        pc[t] \in ConsoleOutputPcs \cup ConsoleInputPcs =>
            \A a \in Accounts : mtx[a] # t

\* C19: currentUser is set exactly when currentAccount is; a step that
\* sets the session is a successful login, and the session it sets is the
\* Account registered under the number given and the User registered under
\* that number, whose PIN is the one given; the session is always such a
\* pair; a menu choice 1-4 starts its operation on currentAccount, and no
\* step changes the balance, history or lock of another account.
C19_SessionConsistent ==
    [][/\ (currentUser' = Null) <=> (currentAccount' = Null)
       /\ ((sessionVars' # sessionVars /\ currentUser' # Null)
              \/ (ret'.method = "login" /\ ret'.val = TRUE)) =>
             /\ ret'.method = "login" /\ ret'.val = TRUE
             /\ ret'.args[1] \in DOMAIN users
             /\ currentAccount' = accounts[ret'.args[1]]
             /\ currentUser' = users[ret'.args[1]]
             /\ pin[currentUser'] = ret'.args[2]
       /\ currentUser' # Null =>
             /\ accountNumber[currentAccount'] \in DOMAIN users
             /\ users[accountNumber[currentAccount']] = currentUser'
             /\ accounts[accountNumber[currentAccount']] = currentAccount'
       /\ (pc[MainThread] = "menu" /\ pc'[MainThread] \notin {"menu", "idle"}) =>
             /\ choice' \in 1..4
             /\ acc'[MainThread] = currentAccount
             /\ accNum'[MainThread] = accountNumber[currentAccount]
       /\ pc'[MainThread] \notin {"menu", "idle"} => acc'[MainThread] = currentAccount'
       /\ \A a \in Accounts :
             (balance'[a] # balance[a] \/ transactions'[a] # transactions[a]
                 \/ mtx'[a] # mtx[a]) => a = currentAccount]_vars

\* C19 witness: after a login to another account than the session's, a
\* menu operation runs on the new account.
C19_Witness ==
    /\ currentUser = "Bob"
    /\ currentAccount = "acc2"
    /\ transactions["acc1"] # <<>>
    /\ pc[MainThread] = "withdraw_store"
    /\ acc[MainThread] = "acc2"

\* C20: a step of an operation changes the balance, history or lock of no
\* account but the one the stepping thread's operation is on, and the
\* directory maps, the PINs and the users' account lists never change.
C20_Isolation ==
    [][/\ UNCHANGED <<users, accounts, pin, userAccounts>>
       /\ \A y \in Accounts :
             (balance'[y] # balance[y] \/ transactions'[y] # transactions[y]
                 \/ mtx'[y] # mtx[y]) =>
                \E t \in Threads :
                    /\ pc'[t] # pc[t]
                    /\ acc[t] = y
                    /\ \A u \in Threads \ {t} : pc'[u] = pc[u]
                    /\ mtx[y] = t \/ mtx'[y] = t]_vars

\* C20 witness: a withdrawal on one account is being rejected while
\* another thread is inside a deposit on the other account, which has a
\* history.
C20_Witness ==
    \E t1 \in Threads, t2 \in Threads :
        /\ pc[t1] = "withdraw_insufficient"
        /\ pc[t2] = "deposit_store"
        /\ acc[t1] # acc[t2]
        /\ transactions[acc[t2]] # <<>>

=============================================================================
